---- MODULE Spec2Model ----
(***************************************************************************)
(* Model of sqlx-core's runtime selection layer:                           *)
(*   src/sqlx-core/src/runtime.rs          trait Runtime, trait Async,     *)
(*                                         impl Runtime for (), mod default *)
(*   src/sqlx-core/src/blocking/options.rs blocking trait ConnectOptions   *)
(*                                                                         *)
(* Everything in runtime.rs is decided by the compiler: which items exist  *)
(* under a cfg, and which call sites satisfy the where-clauses.  The model *)
(* makes the build a sequence of steps (enable a cargo feature, build the  *)
(* crate, instantiate a runtime type, type-check a call site, run it) so   *)
(* that every cfg combination is a reachable state.                        *)
(***************************************************************************)
EXTENDS Integers, Sequences, FiniteSets, TLC

VARIABLES
    features,     \* enabled backend features (cargo feature set)
    asyncOn,      \* feature = "async"
    unix,         \* cfg(unix)
    defaultDefs,  \* active definitions of `default::Runtime` under `features`
    prevDefault,  \* DefaultRuntime before the last feature was enabled
    added,        \* the feature enabled last
    pc,           \* "config" | "built" | "failed" | "run"
    buildResult,  \* "none" | "ok" | rustc error code
    rt,           \* the runtime type the program is instantiated with
    rtMarkers,    \* marker traits implemented for rt
    call,         \* the connect call site under consideration
    connects,     \* number of connection-establishment primitive invocations
    opt,          \* the connection-options value
    optConnects,  \* connect() invocations on the current options value
    conn,         \* result of the last blocking connect()
    parseLog      \* the last parse() call and what it returned

vars == <<features, asyncOn, unix, defaultDefs, prevDefault, added, pc,
          buildResult, rt, rtMarkers, call, connects, opt, optConnects,
          conn, parseLog>>

buildVars == <<features, asyncOn, unix, defaultDefs, prevDefault, added, pc,
               buildResult, rt, rtMarkers>>

optionVars == <<opt, optConnects, conn, parseLog>>

\* ---------------------------------------------------------------- bounds
MaxConnects == 2
MaxUrlLen == 2

\* ------------------------------------------------------------ runtime.rs
BackendSwitches == {"async-std", "tokio", "actix", "blocking"}

RuntimeTypes == {"AsyncStd", "Tokio", "Actix", "Blocking", "()"}

Markers == {"Async", "Blocking"}

Items == {"TcpStream", "UnixStream", "connect_tcp", "connect_unix",
          "connect_tcp_async", "connect_unix_async"}

Ops == {"connect_tcp", "connect_unix", "connect_tcp_async", "connect_unix_async"}

\* mod default: the set of `pub type Runtime = ...` items whose cfg is true.
default_Runtime(F) ==
    {t \in RuntimeTypes :
        \/ t = "AsyncStd" /\ "async-std" \in F
        \/ t = "Tokio" /\ "async-std" \notin F /\ "tokio" \in F
        \/ t = "Actix" /\ ~("async-std" \in F /\ "tokio" \in F) /\ "actix" \in F
        \/ t = "Blocking" /\ F \cap {"async-std", "tokio", "actix"} = {}
                          /\ "blocking" \in F
        \/ t = "()" /\ F \cap {"async-std", "actix", "tokio", "blocking"} = {}}

\* pub type DefaultRuntime = default::Runtime; a name defined twice in one
\* module is error E0428, a name never defined is E0412.
DefaultRuntime(D) ==
    IF Cardinality(D) = 1 THEN CHOOSE t \in D : TRUE
    ELSE IF D = {} THEN "E0412" ELSE "E0428"

\* The documented priority list of DefaultRuntime (1 is the highest).
Rank(t) ==
    CASE t = "AsyncStd" -> 1
      [] t = "Tokio" -> 2
      [] t = "Actix" -> 3
      [] t = "Blocking" -> 4
      [] t = "()" -> 5

\* The backend type each feature registers.
BackendOf(b) ==
    CASE b = "async-std" -> "AsyncStd"
      [] b = "tokio" -> "Tokio"
      [] b = "actix" -> "Actix"
      [] b = "blocking" -> "Blocking"

\* Which runtime types are nameable under the feature set.
TypeDefined(t, F) ==
    \/ t = "()"
    \/ \E b \in F : BackendOf(b) = t

\* The winner the documented priority list names for a feature set.
HighestPriority(F) ==
    LET C == {t \in RuntimeTypes : TypeDefined(t, F)}
    IN CHOOSE t \in C : \A o \in C : Rank(t) <= Rank(o)

\* trait Runtime: the items it declares under a cfg.
RuntimeDeclares(F, a, u) ==
    {i \in Items :
        \/ i = "TcpStream"
        \/ i = "UnixStream" /\ u
        \/ i = "connect_tcp" /\ "blocking" \in F
        \/ i = "connect_unix" /\ u /\ "blocking" \in F
        \/ i = "connect_tcp_async" /\ a
        \/ i = "connect_unix_async" /\ u /\ a}

\* where Self: ... of each gated method of trait Runtime.
WhereClause(op) ==
    CASE op = "connect_tcp" -> "Blocking"
      [] op = "connect_unix" -> "Blocking"
      [] op = "connect_tcp_async" -> "Async"
      [] op = "connect_unix_async" -> "Async"

\* cfg of `impl Runtime for ()`.
UnitImplCompiled(F) ==
    F \cap {"async-std", "actix", "tokio", "blocking"} = {}

UnitImplDefinesNoUnixCfg(F, a, u) ==
    {i \in Items :
        \/ i = "TcpStream"
        \/ i = "UnixStream" /\ u
        \/ i = "connect_tcp_async" /\ a
        \/ i = "connect_unix_async" /\ a}

\* The items `impl Runtime for ()` defines under a cfg.
UnitImplDefines(F, a, u) ==
    {i \in Items :
        \/ i = "TcpStream"
        \/ i = "UnixStream" /\ u
        \/ i = "connect_tcp_async" /\ a
        \/ i = "connect_unix_async" /\ u /\ a}

UnitMarkersWithAsync == {"Async"}

\* Marker traits implemented for (): runtime.rs has no `impl Async for ()`,
\* and blocking::Runtime is not nameable when the unit impl is compiled.
UnitMarkers == {}

\* The marker sets a registration of type t can carry under the feature set.
MarkersPossible(t, F) ==
    IF t = "()" THEN {UnitMarkers}
    ELSE {m \in SUBSET Markers : "Blocking" \in m => "blocking" \in F}

\* t: Runtime
ImplementsRuntime(t, F) ==
    IF t = "()" THEN UnitImplCompiled(F) ELSE TypeDefined(t, F)

\* rustc on the crate itself.
BuildCrate(F, a, u) ==
    IF Cardinality(default_Runtime(F)) > 1 THEN "E0428"
    ELSE IF default_Runtime(F) = {} THEN "E0412"
    ELSE IF UnitImplCompiled(F)
            /\ RuntimeDeclares(F, a, u) \ UnitImplDefines(F, a, u) # {} THEN "E0046"
    ELSE IF UnitImplCompiled(F)
            /\ UnitImplDefines(F, a, u) \ RuntimeDeclares(F, a, u) # {} THEN "E0407"
    ELSE "ok"

AcceptsIgnoringWhere(t, m, op, F, a, u) ==
    /\ op \in RuntimeDeclares(F, a, u)
    /\ ImplementsRuntime(t, F)

\* rustc on a call site `<t as Runtime>::op(..)`: the method must be declared
\* under the cfg, t must implement Runtime, and the trait method's where-clause
\* must hold for t.
Accepts(t, m, op, F, a, u) ==
    /\ op \in RuntimeDeclares(F, a, u)
    /\ ImplementsRuntime(t, F)
    /\ WhereClause(op) \in m

\* What running the method body yields: io::Result from a backend, a panic
\* from the unreachable!() bodies of the unit impl.
Outcomes(t) ==
    IF t = "()" THEN {"panic"} ELSE {"ok", "io_error"}

NoCall == [op |-> "none", status |-> "none"]

\* ------------------------------------------------------ blocking/options.rs
Tokens == {"db", "h1", "h2"}

Hosts == {"h1", "h2"}

RECURSIVE SeqsUpTo(_)
SeqsUpTo(n) ==
    IF n = 0 THEN {<<>>}
    ELSE LET S == SeqsUpTo(n - 1)
         IN S \cup {Append(s, t) : s \in {x \in S : Len(x) = n - 1}, t \in Tokens}

Urls == SeqsUpTo(MaxUrlLen)

WellFormed(url) ==
    /\ Len(url) >= 2
    /\ url[1] = "db"
    /\ url[2] \in Hosts
    /\ \A i \in 3..Len(url) : url[i] \in Hosts

ParseError == [ok |-> FALSE, host |-> "none", err |-> "parse"]

\* crate::ConnectOptions::parse: the generic parser the blocking trait
\* delegates to; res is the crate::Result, io the connect invocations made.
CrateParse(url) ==
    IF WellFormed(url)
    THEN [res |-> [ok |-> TRUE, host |-> url[Len(url)], err |-> "none"], io |-> 0]
    ELSE [res |-> ParseError, io |-> 0]

BlockingParseDefaults(url) ==
    IF WellFormed(url) THEN CrateParse(url)
    ELSE [res |-> [ok |-> TRUE, host |-> "h1", err |-> "none"], io |-> 0]

BlockingParseEager(url) ==
    [CrateParse(url) EXCEPT !.io = 1]

\* blocking::ConnectOptions::parse
BlockingParse(url) ==
    CrateParse(url)

\* crate::ConnectOptions<Rt> where Rt: crate::Runtime
CrateRuntimeBound(t, m, F) ==
    ImplementsRuntime(t, F)

BlockingOptionsBoundAnyRuntime(t, m, F) ==
    /\ "blocking" \in F
    /\ ImplementsRuntime(t, F)

\* trait ConnectOptions<Rt> where Rt: Runtime, Runtime being super::Runtime,
\* that is blocking::Runtime.
BlockingOptionsBound(t, m, F) ==
    /\ "blocking" \in F
    /\ ImplementsRuntime(t, F)
    /\ "Blocking" \in m

NoOptions == [status |-> "absent", host |-> "none"]

NoParse == [style |-> "none", url |-> <<>>, res |-> ParseError, io |-> 0]

\* ------------------------------------------------------------------ Init
Init ==
    /\ features = {}
    /\ asyncOn \in BOOLEAN
    /\ unix \in BOOLEAN
    /\ defaultDefs = default_Runtime({})
    /\ prevDefault = "none"
    /\ added = "none"
    /\ pc = "config"
    /\ buildResult = "none"
    /\ rt = "none"
    /\ rtMarkers = {}
    /\ call = NoCall
    /\ connects = 0
    /\ opt = NoOptions
    /\ optConnects = 0
    /\ conn = "none"
    /\ parseLog = NoParse

\* --------------------------------------------------------------- actions
\* Turn one more backend feature on; every cfg is re-evaluated.
EnableBackend(b) ==
    /\ pc = "config"
    /\ b \notin features
    /\ features' = features \cup {b}
    /\ prevDefault' = DefaultRuntime(defaultDefs)
    /\ defaultDefs' = default_Runtime(features')
    /\ added' = b
    /\ UNCHANGED <<asyncOn, unix, pc, buildResult, rt, rtMarkers, call,
                   connects, opt, optConnects, conn, parseLog>>

\* Compile the crate under the chosen configuration.
Build ==
    /\ pc = "config"
    /\ buildResult' = BuildCrate(features, asyncOn, unix)
    /\ pc' = IF buildResult' = "ok" THEN "built" ELSE "failed"
    /\ UNCHANGED <<features, asyncOn, unix, defaultDefs, prevDefault, added,
                   rt, rtMarkers, call, connects, opt, optConnects, conn,
                   parseLog>>

\* The program picks the runtime type it is generic over.
UseRuntime(t, m) ==
    /\ pc = "built"
    /\ TypeDefined(t, features)
    /\ m \in MarkersPossible(t, features)
    /\ rt' = t
    /\ rtMarkers' = m
    /\ pc' = "run"
    /\ UNCHANGED <<features, asyncOn, unix, defaultDefs, prevDefault, added,
                   buildResult, call, connects, opt, optConnects, conn,
                   parseLog>>

\* Type-check a call site of a gated connect method on rt.
CompileCall(op) ==
    /\ pc = "run"
    /\ call' = [op |-> op,
                status |-> IF Accepts(rt, rtMarkers, op, features, asyncOn, unix)
                           THEN "accepted" ELSE "rejected"]
    /\ call' # call
    /\ UNCHANGED <<buildVars, connects, optionVars>>

\* Execute an accepted call site.
RunCall ==
    /\ pc = "run"
    /\ call.status = "accepted"
    /\ connects < MaxConnects
    /\ \E o \in Outcomes(rt) : call' = [call EXCEPT !.status = o]
    /\ connects' = connects + 1
    /\ UNCHANGED <<buildVars, optionVars>>

Next ==
    \/ \E b \in BackendSwitches : EnableBackend(b)
    \/ Build
    \/ \E t \in RuntimeTypes, m \in SUBSET Markers : UseRuntime(t, m)
    \/ \E op \in Ops : CompileCall(op)
    \/ RunCall

Spec == Init /\ [][Next]_vars

\* ------------------------------------------------- blocking/options.rs steps
\* A program built with the blocking feature, instantiated with some runtime.
InitOptions ==
    /\ features \in {F \in SUBSET BackendSwitches :
                        "blocking" \in F /\ BuildCrate(F, TRUE, TRUE) = "ok"}
    /\ asyncOn = TRUE
    /\ unix = TRUE
    /\ defaultDefs = default_Runtime(features)
    /\ prevDefault = "none"
    /\ added = "none"
    /\ pc = "run"
    /\ buildResult = "ok"
    /\ rt \in {t \in RuntimeTypes : ImplementsRuntime(t, features)}
    /\ rtMarkers \in MarkersPossible(rt, features)
    /\ call = NoCall
    /\ connects = 0
    /\ opt = NoOptions
    /\ optConnects = 0
    /\ conn = "none"
    /\ parseLog = NoParse

\* Self::parse(url) through the blocking trait ("blocking") or through
\* crate::ConnectOptions ("generic").  Ok(options) is a new options value.
Parse(url, style) ==
    /\ pc = "run"
    /\ IF style = "blocking"
       THEN BlockingOptionsBound(rt, rtMarkers, features)
       ELSE CrateRuntimeBound(rt, rtMarkers, features)
    /\ LET r == IF style = "blocking" THEN BlockingParse(url) ELSE CrateParse(url)
       IN /\ parseLog' = [style |-> style, url |-> url, res |-> r.res, io |-> r.io]
          /\ connects' = connects + r.io
          /\ IF r.res.ok
             THEN /\ opt' = [status |-> "live", host |-> r.res.host]
                  /\ optConnects' = 0
                  /\ conn' = "none"
             ELSE UNCHANGED <<opt, optConnects, conn>>
    /\ UNCHANGED <<buildVars, call>>

\* Builder-style configuration of a live options value.
Configure(h) ==
    /\ pc = "run"
    /\ opt.status = "live"
    /\ h # opt.host
    /\ opt' = [opt EXCEPT !.host = h]
    /\ UNCHANGED <<buildVars, call, connects, optConnects, conn, parseLog>>

BlockingConnectBySelf ==
    /\ pc = "run"
    /\ BlockingOptionsBound(rt, rtMarkers, features)
    /\ opt.status = "live"
    /\ connects < MaxConnects
    /\ \E c \in {"open", "failed"} : conn' = c
    /\ optConnects' = optConnects + 1
    /\ connects' = connects + 1
    /\ opt' = [opt EXCEPT !.status = "moved"]
    /\ UNCHANGED <<buildVars, call, parseLog>>

\* fn connect(&self) -> crate::Result<Self::Connection>
BlockingConnect ==
    /\ pc = "run"
    /\ BlockingOptionsBound(rt, rtMarkers, features)
    /\ opt.status = "live"
    /\ connects < MaxConnects
    /\ \E c \in {"open", "failed"} : conn' = c
    /\ optConnects' = optConnects + 1
    /\ connects' = connects + 1
    /\ opt' = opt
    /\ UNCHANGED <<buildVars, call, parseLog>>

NextOptions ==
    \/ \E url \in Urls, style \in {"blocking", "generic"} : Parse(url, style)
    \/ \E h \in Hosts : Configure(h)
    \/ BlockingConnect

SpecOptions == InitOptions /\ [][NextOptions]_vars

\* ---------------------------------------------------------------- claims
\* C1: under every subset of the backend features, mod default has exactly
\* one active definition of the alias Runtime.
C1_ExactlyOneDefinition ==
    Cardinality(defaultDefs) = 1

\* C2: DefaultRuntime is the highest-priority included backend in the order
\* AsyncStd > Tokio > Actix > Blocking > (), and () exactly when no backend
\* feature is on.
C2_HighestPriorityWins ==
    /\ DefaultRuntime(defaultDefs) = HighestPriority(features)
    /\ (DefaultRuntime(defaultDefs) = "()") <=> (features = {})

\* C3: enabling one more backend changes the resolved default only if the
\* new backend outranks the default resolved before.
C3_Monotone ==
    (/\ added # "none"
     /\ prevDefault \in RuntimeTypes
     /\ DefaultRuntime(defaultDefs) # prevDefault)
        => Rank(BackendOf(added)) < Rank(prevDefault)

C5_PlaceholderUncallable ==
    /\ rt = "()" => (rtMarkers = {} /\ call.status \in {"none", "rejected"})
    /\ call.status # "panic"

C5_Witness ==
    /\ features = {}
    /\ asyncOn
    /\ rt = "()"
    /\ call = [op |-> "connect_tcp_async", status |-> "rejected"]

\* C10: whenever impl Runtime for () is compiled, it defines exactly the
\* items trait Runtime declares under the same cfg, and the build reports
\* neither a missing nor a foreign item.
C10_UnitImplMatchesTrait ==
    (pc # "config" /\ UnitImplCompiled(features))
        => /\ buildResult \notin {"E0046", "E0407"}
           /\ UnitImplDefines(features, asyncOn, unix)
                = RuntimeDeclares(features, asyncOn, unix)

C10_Witness ==
    /\ pc = "built"
    /\ UnitImplCompiled(features)
    /\ asyncOn
    /\ ~unix

\* C6: a blocking connect() has been performed only on options bound to a
\* runtime carrying the blocking marker.
C6_BlockingConnectNeedsMarker ==
    (optConnects > 0 \/ conn # "none") => "Blocking" \in rtMarkers

C6_Witness ==
    /\ optConnects > 0
    /\ conn = "open"
    /\ "Blocking" \in rtMarkers

\* C7: what blocking parse returned for a string is exactly what the generic
\* parse returns for that string, options value or error.
C7_ParseStyleIndependent ==
    parseLog.style = "blocking" => parseLog.res = CrateParse(parseLog.url).res

C7_Witness ==
    /\ parseLog.style = "blocking"
    /\ parseLog.res.ok
    /\ opt = [status |-> "live", host |-> parseLog.res.host]

\* C8: blocking parse of a malformed string returned a parse error, and no
\* blocking parse invoked a connection-establishment primitive.
C8_ParseNoIo ==
    parseLog.style = "blocking"
        => /\ parseLog.io = 0
           /\ ~WellFormed(parseLog.url) => parseLog.res = ParseError

C8_Witness ==
    /\ parseLog.style = "blocking"
    /\ ~WellFormed(parseLog.url)
    /\ parseLog.res = ParseError
    /\ connects = 0

\* C9 as stated: once connect has been invoked on an options value, the
\* value is no longer available.
C9_ConnectConsumes ==
    optConnects > 0 => opt.status # "live"

\* C9 amended: connect is invoked on a live options value and leaves that
\* value unchanged and live.
C9_ConnectBorrows ==
    [][optConnects' > optConnects => (opt.status = "live" /\ opt' = opt)]_vars

C9_Witness ==
    /\ optConnects >= 2
    /\ opt.status = "live"

====
